---------------------------- MODULE Spec2Model ----------------------------
(***************************************************************************)
(* EAN-13 normalisation of the barcode generator (app/src/App.tsx and its  *)
(* two earlier variants AppComplexe.tsx and AppOld.tsx).                   *)
(*                                                                         *)
(* A string is a sequence of one-character strings.  An error message is a *)
(* record [msg, args]: msg is the fixed text of the message and args the   *)
(* numbers interpolated into it; the empty message '' is NoError.          *)
(***************************************************************************)
EXTENDS Integers, Sequences, FiniteSets, TLC

(***************************************************************************)
(* Bounds of the explored inputs.                                          *)
(***************************************************************************)
\* Every string over BinDigits of at most MaxLen characters is explored.
MaxLen == 14

(***************************************************************************)
(* Characters and the string primitives the code uses.                     *)
(***************************************************************************)
DigitChars == <<"0", "1", "2", "3", "4", "5", "6", "7", "8", "9">>

Digits == {DigitChars[i] : i \in 1..10}

\* The class [0-9] of the regular expression /[^0-9]/g.
IsDigitNoZero(c) == c \in Digits \ {"0"}

IsDigit(c) == c \in Digits

\* Characters String.prototype.trim removes (only the space occurs in the
\* explored inputs).
IsSpace(c) == c = " "

\* parseInt(c) for a one-character string c holding a decimal digit.
parseInt(c) == (CHOOSE i \in 1..10 : DigitChars[i] = c) - 1

\* String(n) for a natural number n: what `digits + checkDigit` and the
\* template literals append.
RECURSIVE NumToStr(_)
NumToStr(n) ==
  IF n < 10 THEN <<DigitChars[n + 1]>>
  ELSE NumToStr(n \div 10) \o <<DigitChars[(n % 10) + 1]>>

RECURSIVE trimStart(_)
trimStart(s) ==
  IF s # <<>> /\ IsSpace(Head(s)) THEN trimStart(Tail(s)) ELSE s

RECURSIVE trimEnd(_)
trimEnd(s) ==
  IF s # <<>> /\ IsSpace(s[Len(s)]) THEN trimEnd(SubSeq(s, 1, Len(s) - 1))
  ELSE s

\* inputText.trim()
trimStartOnly(s) == trimStart(s)

trim(s) == trimEnd(trimStart(s))

\* s.replace(/[^0-9]/g, '')
replaceNonDigits(s) == SelectSeq(s, IsDigit)

(***************************************************************************)
(* Error messages.                                                         *)
(***************************************************************************)
NoError == [msg |-> "", args |-> <<>>]

\* `Chiffre de contrôle invalide. Attendu: ${calculated}, fourni: ${provided}`
ChecksumErrorSwapped(calculated, provided) ==
  [msg |-> "Chiffre de controle invalide", args |-> <<provided, calculated>>]

ChecksumError(calculated, provided) ==
  [msg |-> "Chiffre de controle invalide", args |-> <<calculated, provided>>]

\* `EAN-13 nécessite 12 ou 13 chiffres (${digits.length} fournis)`
LengthError(n) ==
  [msg |-> "EAN-13 necessite 12 ou 13 chiffres", args |-> <<n>>]

\* 'Texte vide'
EmptyError == [msg |-> "Texte vide", args |-> <<>>]

(***************************************************************************)
(* The check-digit loop:                                                   *)
(*   let sum = 0                                                           *)
(*   for (let i = 0; i < 12; i++)                                          *)
(*     sum += parseInt(digits[i]) * (i % 2 === 0 ? 1 : 3)                  *)
(* i is the 0-based index of the code; digits[i] is element i + 1 here.    *)
(***************************************************************************)
weightSwapped(i) == IF i % 2 = 0 THEN 3 ELSE 1

weight(i) == IF i % 2 = 0 THEN 1 ELSE 3

RECURSIVE sumLoopShort(_, _, _)
sumLoopShort(digits, i, sum) ==
  IF i < 11
  THEN sumLoopShort(digits, i + 1, sum + parseInt(digits[i + 1]) * weight(i))
  ELSE sum

RECURSIVE sumLoop(_, _, _)
sumLoop(digits, i, sum) ==
  IF i < 12
  THEN sumLoop(digits, i + 1, sum + parseInt(digits[i + 1]) * weight(i))
  ELSE sum

\* (10 - (sum % 10)) % 10
checkDigitNoOuterMod(sum) == 10 - (sum % 10)

checkDigit(sum) == (10 - (sum % 10)) % 10

(***************************************************************************)
(* processText(inputText, codeType) of the current App.                    *)
(***************************************************************************)
\* const providedCheckDigit = parseInt(digits[12])
providedCheckDigitOffByOne(digits) == parseInt(digits[12])

providedCheckDigit(digits) == parseInt(digits[13])

\* The branch digits.length === 13 of processText.
processText13NoValidation(trimmedText, digits) ==
  [text |-> digits, error |-> NoError]

processText13ReturnsTrimmed(trimmedText, digits) ==
  IF checkDigit(sumLoop(digits, 0, 0)) # providedCheckDigit(digits)
  THEN [text |-> trimmedText,
        error |-> ChecksumError(checkDigit(sumLoop(digits, 0, 0)),
                                providedCheckDigit(digits))]
  ELSE [text |-> trimmedText, error |-> NoError]

processText13(trimmedText, digits) ==
  LET calculatedCheckDigit == checkDigit(sumLoop(digits, 0, 0))
  IN  IF calculatedCheckDigit # providedCheckDigit(digits)
      THEN [text |-> trimmedText,
            error |-> ChecksumError(calculatedCheckDigit,
                                    providedCheckDigit(digits))]
      ELSE [text |-> digits, error |-> NoError]

processText(inputText, codeType) ==
  LET trimmedText == trim(inputText)
      digits == replaceNonDigits(trimmedText)
  IN  IF trimmedText = <<>> THEN [text |-> <<>>, error |-> EmptyError]
      ELSE IF codeType = "ean13"
      THEN IF Len(digits) = 12
           THEN [text |-> digits \o NumToStr(checkDigit(sumLoop(digits, 0, 0))),
                 error |-> NoError]
           ELSE IF Len(digits) = 13
           THEN processText13(trimmedText, digits)
           ELSE [text |-> trimmedText, error |-> LengthError(Len(digits))]
      ELSE [text |-> trimmedText, error |-> NoError]

(***************************************************************************)
(* JsBarcode(element, text, {format}) of the jsbarcode library: it throws   *)
(* on a text its encoder does not accept and renders the text otherwise.   *)
(* EAN13 accepts 12 digits, or 13 digits whose last digit is the checksum  *)
(* of the first 12; CODE128 accepts any non-empty text of the explored     *)
(* alphabet.                                                               *)
(***************************************************************************)
JsBarcodeValid(format, txt) ==
  IF format = "EAN13"
  THEN /\ \A i \in 1..Len(txt) : IsDigit(txt[i])
       /\ \/ Len(txt) = 12
          \/ /\ Len(txt) = 13
             /\ parseInt(txt[13]) = checkDigit(sumLoop(txt, 0, 0))
  ELSE txt # <<>>

\* err.message of the exception JsBarcode throws
JsBarcodeError(prefix) ==
  [msg |-> IF prefix = "" THEN "is not a valid input"
           ELSE "Erreur: is not a valid input",
   args |-> <<>>]

\* JsBarcode(svgRef.current, processedText, ...); setError('') and its catch.
\* handed is the sequence of values passed to JsBarcode (none or one).
RenderOrCatch(format, processedText, prefix) ==
  IF JsBarcodeValid(format, processedText)
  THEN [error |-> NoError, svg |-> processedText, handed |-> <<processedText>>]
  ELSE [error |-> JsBarcodeError(prefix), svg |-> <<>>,
        handed |-> <<processedText>>]

\* setError(message) in a catch, or an early return: nothing is rendered.
Fail(message) == [error |-> message, svg |-> <<>>, handed |-> <<>>]

FormatOf(codeType) == IF codeType = "ean13" THEN "EAN13" ELSE "CODE128"

(***************************************************************************)
(* The barcode effect of the current App, as a function of the values it   *)
(* reads: the type, whether the preview <svg> is mounted (svgRef.current), *)
(* the debounced text, and the error and svg content it may leave alone.   *)
(***************************************************************************)
\* The branch digits.length === 13 of the effect.
BarcodeEffect13NoValidation(digits) == RenderOrCatch("EAN13", digits, "")

BarcodeEffect13(digits) ==
  LET calculatedCheckDigit == checkDigit(sumLoop(digits, 0, 0))
  IN  IF calculatedCheckDigit # providedCheckDigit(digits)
      THEN Fail(ChecksumError(calculatedCheckDigit, providedCheckDigit(digits)))
      ELSE RenderOrCatch("EAN13", digits, "")

BarcodeEffect(codeType, svgMounted, debouncedText, prevError, prevSvg) ==
  IF codeType # "qrcode" /\ svgMounted /\ trim(debouncedText) # <<>>
  THEN LET trimmed == trim(debouncedText)
           digits == replaceNonDigits(trimmed)
       IN  IF codeType = "ean13"
           THEN IF Len(digits) = 12
                THEN RenderOrCatch("EAN13",
                       digits \o NumToStr(checkDigit(sumLoop(digits, 0, 0))), "")
                ELSE IF Len(digits) = 13
                THEN BarcodeEffect13(digits)
                ELSE Fail(LengthError(Len(digits)))
           ELSE RenderOrCatch("CODE128", trimmed, "")
  ELSE IF codeType # "qrcode"
  THEN [error |-> NoError, svg |-> prevSvg, handed |-> <<>>]
  ELSE [error |-> prevError, svg |-> prevSvg, handed |-> <<>>]

(***************************************************************************)
(* The barcode effect of AppComplexe: as above, but a 13-digit input is    *)
(* handed to JsBarcode without comparing its last digit.                   *)
(***************************************************************************)
BarcodeEffectComplexe(codeType, svgMounted, txt, prevError, prevSvg) ==
  IF codeType # "qrcode" /\ svgMounted /\ trim(txt) # <<>>
  THEN LET trimmed == trim(txt)
           digits == replaceNonDigits(trimmed)
       IN  IF codeType = "ean13"
           THEN IF Len(digits) = 12
                THEN RenderOrCatch("EAN13",
                       digits \o NumToStr(checkDigit(sumLoop(digits, 0, 0))), "")
                ELSE IF Len(digits) = 13
                THEN RenderOrCatch("EAN13", digits, "")
                ELSE Fail(LengthError(Len(digits)))
           ELSE RenderOrCatch("CODE128", trimmed, "")
  ELSE IF codeType # "qrcode"
  THEN [error |-> NoError, svg |-> prevSvg, handed |-> <<>>]
  ELSE [error |-> prevError, svg |-> prevSvg, handed |-> <<>>]

\* The barcode effect of the second App component of App.tsx: the text of
\* AppComplexe's effect, line for line.
BarcodeEffectSecond(codeType, svgMounted, txt, prevError, prevSvg) ==
  BarcodeEffectComplexe(codeType, svgMounted, txt, prevError, prevSvg)

(***************************************************************************)
(* The barcode effect of AppOld: the digits are counted on the raw text    *)
(* and the raw text itself is handed to JsBarcode.                         *)
(***************************************************************************)
\* 'EAN-13 doit contenir exactement 13 chiffres'
Exactly13Error ==
  [msg |-> "EAN-13 doit contenir exactement 13 chiffres", args |-> <<>>]

BarcodeEffectOld(codeType, svgMounted, txt, prevError, prevSvg) ==
  IF codeType # "qrcode" /\ svgMounted
  THEN IF trim(txt) = <<>>
       THEN [error |-> NoError, svg |-> <<>>, handed |-> <<>>]
       ELSE IF codeType = "ean13" /\ Len(replaceNonDigits(txt)) # 13
       THEN Fail(Exactly13Error)
       ELSE RenderOrCatch(FormatOf(codeType), txt, "Erreur: ")
  ELSE [error |-> NoError, svg |-> prevSvg, handed |-> <<>>]

(***************************************************************************)
(* The explored raw inputs.                                                *)
(*  - every string of at most MaxLen characters over two digits (their     *)
(*    weighted sums take every residue modulo 10);                         *)
(*  - the codes of Bases with one digit replaced by any digit, alone and   *)
(*    followed by any thirteenth digit; the prefixes of the codes of Bases *)
(*    and the codes followed by two digits;                                *)
(*  - the strings of the second family written with non-digit characters:  *)
(*    surrounded by spaces, grouped with hyphens, led by a letter.         *)
(***************************************************************************)
BinDigits == {"0", "1"}

BinaryInputs == UNION {[1..n -> BinDigits] : n \in 0..MaxLen}

Bases ==
  { <<"1","2","3","4","5","6","7","8","9","0","1","2">>,
    <<"4","0","0","6","3","8","1","3","3","3","9","3">>,
    <<"9","9","9","9","9","9","9","9","9","9","9","9">> }

Edited12 == {[b EXCEPT ![i] = d] : b \in Bases, i \in 1..12, d \in Digits}

Edited13 == {Append(s, d) : s \in Edited12, d \in Digits}

OtherLengths ==
  {SubSeq(b, 1, n) : b \in Bases, n \in 0..11}
    \cup {b \o <<"0", d>> : b \in Bases, d \in Digits}

DigitInputs == Edited12 \cup Edited13 \cup OtherLengths

\* A digit string as a user may write it.
Spaced(s) == <<" ">> \o s \o <<" ", " ">>

Hyphenated(s) ==
  IF Len(s) < 7 THEN s \o <<"-">>
  ELSE SubSeq(s, 1, 1) \o <<"-">> \o SubSeq(s, 2, 7) \o <<"-">>
         \o SubSeq(s, 8, Len(s))

Lettered(s) == <<"a", " ">> \o s

Written(s) == {s, Spaced(s), Hyphenated(s), Lettered(s)}

Inputs == BinaryInputs \cup UNION {Written(s) : s \in DigitInputs}

\* Texts explored for the types whose text is not normalised.
PlainInputs ==
  {<<>>, <<" ">>, <<"a">>, <<" ", "a", "-", "1", " ">>}
    \cup {Spaced(b) : b \in Bases} \cup {Hyphenated(b) : b \in Bases}
    \cup {Lettered(SubSeq(b, 1, n)) : b \in Bases, n \in 0..3}

CodeTypes == {"qrcode", "ean13", "code128"}

(***************************************************************************)
(* State: one raw input and what each operation makes of it.               *)
(***************************************************************************)
VARIABLES
  text,     \* the raw input
  type,     \* the selected code type
  done,     \* the operation that has run on text, "none" before
  ret,      \* the value processText returned
  error,    \* the error state of the component
  svg,      \* the content of the preview <svg> ('' when empty)
  handed,   \* the values passed to JsBarcode by the effect
  \* the component in the browser
  mounted,            \* the App component has been mounted
  debouncedText,      \* useDebounce(text, 300)
  svgMounted,         \* svgRef.current is the preview <svg>
  canvasMounted,      \* canvasRef.current is the QR <canvas>
  isDark,
  savedTheme,         \* localStorage 'theme' ("" when absent)
  prefersDark,        \* matchMedia('(prefers-color-scheme: dark)').matches
  rootDark,           \* document.documentElement has class 'dark'
  isBatchMode,
  emitted,            \* the files the last download call has emitted
  \* batch mode
  batchText,          \* the lines of the textarea
  debouncedBatchText, \* useDebounce(batchText, 300)
  generatedCodes,
  isGeneratingBatch,
  run,                \* the last generateBatchCodes call and its locals
  publications,       \* the lists the current run gave to setGeneratedCodes
  yields,             \* the number of times the current run has suspended
  clicked,            \* generatedCodes as the last downloadBatchCodes saw it
  timers              \* the pending timers of downloadBatchCodes

pureVars == <<text, type, done, ret, error, svg, handed>>

themeVars == <<isDark, savedTheme, prefersDark, rootDark>>

singleVars == <<mounted, debouncedText, svgMounted, canvasMounted, isBatchMode,
                emitted>>

batchVars == <<batchText, debouncedBatchText, generatedCodes, isGeneratingBatch,
               run, publications, yields, clicked, timers>>

uiVars == <<themeVars, singleVars, batchVars>>

vars == <<pureVars, uiVars>>

\* No generateBatchCodes call is suspended.
NoRun == [active |-> FALSE, lines |-> <<>>, codes |-> <<>>, chunkStart |-> 0,
          type |-> "qrcode"]

\* The text of the textarea is held as the sequence of its lines, the parts
\* split('\n') gives: the empty text is one empty line.
EmptyText == << <<>> >>

\* The batch state of a freshly constructed component (useState initial
\* values), no batch call made.
BatchIdle ==
  /\ batchText = EmptyText
  /\ debouncedBatchText = EmptyText
  /\ generatedCodes = <<>>
  /\ isGeneratingBatch = FALSE
  /\ run = NoRun
  /\ publications = <<>>
  /\ yields = 0
  /\ clicked = <<>>
  /\ timers = <<>>

\* The component state of the specification of the pure operations: the
\* component is not mounted and stays so.
UiIdle ==
  /\ mounted = FALSE
  /\ debouncedText = <<>>
  /\ svgMounted = FALSE
  /\ canvasMounted = FALSE
  /\ isDark = FALSE
  /\ savedTheme = ""
  /\ prefersDark = FALSE
  /\ rootDark = FALSE
  /\ isBatchMode = FALSE
  /\ emitted = <<>>
  /\ BatchIdle

Init ==
  /\ type \in CodeTypes
  /\ text \in (IF type = "ean13" THEN Inputs ELSE PlainInputs)
  /\ done = "none"
  /\ ret = [text |-> <<>>, error |-> NoError]
  /\ error = NoError
  /\ svg = <<>>
  /\ handed = <<>>
  /\ UiIdle

\* processText(text, type), as generateBatchCodes calls it on a line.
ProcessText ==
  /\ done = "none"
  /\ done' = "processText"
  /\ ret' = processText(text, type)
  /\ UNCHANGED <<text, type, error, svg, handed>>
  /\ UNCHANGED uiVars

SetEffect(name, r) ==
  /\ done = "none"
  /\ done' = name
  /\ error' = r.error
  /\ svg' = r.svg
  /\ handed' = r.handed
  /\ UNCHANGED <<text, type, ret>>
  /\ UNCHANGED uiVars

\* The barcode effect of the current App on the settled text, the preview
\* <svg> mounted.
Effect == SetEffect("App", BarcodeEffect(type, TRUE, text, error, svg))

EffectComplexe ==
  SetEffect("AppComplexe", BarcodeEffectComplexe(type, TRUE, text, error, svg))

EffectOld == SetEffect("AppOld", BarcodeEffectOld(type, TRUE, text, error, svg))

Next == ProcessText \/ Effect \/ EffectComplexe \/ EffectOld

Spec == Init /\ [][Next]_vars

(***************************************************************************)
(* The specification's reading of the operations, written without the      *)
(* operators above.                                                        *)
(***************************************************************************)
DigitValue(c) ==
  CASE c = "0" -> 0 [] c = "1" -> 1 [] c = "2" -> 2 [] c = "3" -> 3
    [] c = "4" -> 4 [] c = "5" -> 5 [] c = "6" -> 6 [] c = "7" -> 7
    [] c = "8" -> 8 [] c = "9" -> 9

DecimalChars == {"0", "1", "2", "3", "4", "5", "6", "7", "8", "9"}

IsDecimal(c) == c \in DecimalChars

\* The decimal digits of a raw input, in order.
DigitsIn(s) == SelectSeq(s, IsDecimal)

\* A raw input that holds nothing but white space.
IsBlank(s) == \A i \in 1..Len(s) : s[i] = " "

\* S: the digits at the even positions 0,2,...,10 once, those at the odd
\* positions 1,3,...,11 three times.
SpecWeightedSum(D) ==
  LET v(k) == DigitValue(D[k + 1])
  IN  (v(0) + v(2) + v(4) + v(6) + v(8) + v(10))
        + 3 * (v(1) + v(3) + v(5) + v(7) + v(9) + v(11))

SpecCheckDigit(D) == (10 - (SpecWeightedSum(D) % 10)) % 10

\* One decimal character for a digit 0..9.
DigitChar(n) ==
  CASE n = 0 -> "0" [] n = 1 -> "1" [] n = 2 -> "2" [] n = 3 -> "3"
    [] n = 4 -> "4" [] n = 5 -> "5" [] n = 6 -> "6" [] n = 7 -> "7"
    [] n = 8 -> "8" [] n = 9 -> "9"

\* D followed by its check digit.
Completed(D) == D \o <<DigitChar(SpecCheckDigit(D))>>

D == DigitsIn(text)

Ean == type = "ean13"

Str123456789012 == <<"1","2","3","4","5","6","7","8","9","0","1","2">>

(***************************************************************************)
(* C1: for every input of 12 digits D under type ean13, the check digit    *)
(* that processText and the single-mode effect append to D is              *)
(* (10 - (S mod 10)) mod 10, S the sum of the digits at the even positions *)
(* plus three times the digits at the odd positions.                       *)
(***************************************************************************)
C1_CheckDigitIsWeightedSumFormula ==
  (Ean /\ Len(D) = 12) =>
    /\ done = "processText" =>
          SubSeq(ret.text, 13, Len(ret.text)) = <<DigitChar(SpecCheckDigit(D))>>
    /\ done = "App" =>
          /\ Len(handed) = 1
          /\ SubSeq(handed[1], 13, Len(handed[1]))
               = <<DigitChar(SpecCheckDigit(D))>>

\* The effect has completed 400638133393 with the check digit 1.
C1_Witness ==
  /\ Ean /\ done = "App"
  /\ text = <<"4","0","0","6","3","8","1","3","3","3","9","3">>
  /\ handed = <<text \o <<"1">>>>

(***************************************************************************)
(* C2: an input of 13 digits D + c under type ean13 is accepted, by        *)
(* processText and by the single-mode effect, exactly when c is the check  *)
(* digit of D.                                                             *)
(***************************************************************************)
C2_Accepts13IffCheckDigit ==
  (Ean /\ Len(D) = 13) =>
    LET right == DigitValue(D[13]) = SpecCheckDigit(SubSeq(D, 1, 12))
    IN  /\ done = "processText" => ((ret.error = NoError) <=> right)
        /\ done = "App" => ((error = NoError /\ handed = <<D>>) <=> right)

\* The effect has accepted 1234567890128.
C2_Witness ==
  /\ Ean /\ done = "App"
  /\ text = Str123456789012 \o <<"8">>
  /\ error = NoError /\ handed = <<text>> /\ svg = text

(***************************************************************************)
(* C3: round trip.  For every 12 digits D, processText accepts D followed  *)
(* by its check digit and returns it unchanged; every text processText     *)
(* returns without an error is returned unchanged when processed again.    *)
(***************************************************************************)
C3_RoundTrip ==
  (Ean /\ done = "processText") =>
    /\ Len(D) = 12 =>
          processText(Completed(D), "ean13")
            = [text |-> Completed(D), error |-> NoError]
    /\ ret.error = NoError =>
          processText(ret.text, "ean13") = [text |-> ret.text, error |-> NoError]

\* 1234567890128 is returned as it is.
C3_Witness ==
  /\ Ean /\ done = "processText"
  /\ text = Str123456789012 \o <<"8">>
  /\ ret = [text |-> text, error |-> NoError]

(***************************************************************************)
(* C4: every input holding exactly 12 digits under type ean13 is accepted  *)
(* with no error, and the result is the 13-digit string made of those 12   *)
(* digits and their check digit.                                           *)
(***************************************************************************)
C4_TwelveDigitsAreCompleted ==
  (Ean /\ Len(D) = 12) =>
    /\ done = "processText" => ret = [text |-> Completed(D), error |-> NoError]
    /\ done = "App" =>
          /\ error = NoError
          /\ handed = <<Completed(D)>>
          /\ svg = Completed(D)
    /\ Len(Completed(D)) = 13

\* 123456789012, written with hyphens, gives 1234567890128.
C4_Witness ==
  /\ Ean /\ done = "processText"
  /\ text = Hyphenated(Str123456789012)
  /\ ret = [text |-> Str123456789012 \o <<"8">>, error |-> NoError]

\* The two error messages of the EAN-13 rules, as the user reads them.
SpecLengthError(n) ==
  [msg |-> "EAN-13 necessite 12 ou 13 chiffres", args |-> <<n>>]

SpecChecksumError(expected, provided) ==
  [msg |-> "Chiffre de controle invalide", args |-> <<expected, provided>>]

SpecEmptyError == [msg |-> "Texte vide", args |-> <<>>]

(***************************************************************************)
(* C5: every input under type ean13 whose number n of digits is neither 12 *)
(* nor 13 fails with the length error reporting n.                         *)
(*                                                                         *)
(* As claimed (n = 0 included, whatever the input) it fails on a blank     *)
(* input: processText answers 'Texte vide' and the effect clears the       *)
(* error.  It holds of every input that is not blank.                      *)
(***************************************************************************)
C5_LengthErrorForEveryInput ==
  (Ean /\ Len(D) \notin {12, 13}) =>
    /\ done = "processText" => ret.error = SpecLengthError(Len(D))
    /\ done = "App" => error = SpecLengthError(Len(D))

C5_LengthErrorUnlessBlank ==
  (Ean /\ Len(D) \notin {12, 13}) =>
    /\ (done = "processText" /\ ~IsBlank(text)) =>
          ret.error = SpecLengthError(Len(D))
    /\ (done = "App" /\ ~IsBlank(text)) =>
          /\ error = SpecLengthError(Len(D))
          /\ handed = <<>> /\ svg = <<>>
    /\ (done = "processText" /\ IsBlank(text)) => ret.error = SpecEmptyError
    /\ (done = "App" /\ IsBlank(text)) => (error = NoError /\ handed = <<>>)

\* 12345 fails with the length error reporting 5 digits.
C5_Witness ==
  /\ Ean /\ done = "processText"
  /\ text = <<"1", "2", "3", "4", "5">>
  /\ ret.error = SpecLengthError(5)

(***************************************************************************)
(* C6: an input of 13 digits under type ean13 whose last digit p differs   *)
(* from the check digit e of its first 12 digits fails with the checksum   *)
(* error reporting e as expected and p as provided.                        *)
(***************************************************************************)
C6_MismatchReportsExpectedAndProvided ==
  (Ean /\ Len(D) = 13) =>
    LET e == SpecCheckDigit(SubSeq(D, 1, 12))
        p == DigitValue(D[13])
    IN  e # p =>
          /\ done = "processText" => ret.error = SpecChecksumError(e, p)
          /\ done = "App" =>
                (error = SpecChecksumError(e, p) /\ handed = <<>> /\ svg = <<>>)

\* 1234567890129 fails with expected 8, provided 9.
C6_Witness ==
  /\ Ean /\ done = "App"
  /\ text = Str123456789012 \o <<"9">>
  /\ error = SpecChecksumError(8, 9)

(***************************************************************************)
(* C7: under type ean13 the only failures are the checksum error, on 13    *)
(* digits only, and the length error, on a number of digits other than 12  *)
(* and 13 only.                                                            *)
(*                                                                         *)
(* As claimed (for every raw input) it fails on a blank input, where       *)
(* processText fails with 'Texte vide'.  It holds of every input that is   *)
(* not blank.                                                              *)
(***************************************************************************)
OneOfTwoKinds(e) ==
  \/ e = NoError
  \/ e.msg = "Chiffre de controle invalide" /\ Len(D) = 13
  \/ e.msg = "EAN-13 necessite 12 ou 13 chiffres" /\ Len(D) \notin {12, 13}

Outcome(e, result) ==
  IF e = NoError THEN [failed |-> FALSE, error |-> NoError, result |-> result]
  ELSE [failed |-> TRUE, error |-> e, result |-> <<>>]

OutcomeOfProcessText(w) ==
  LET r == processText(w, "ean13") IN Outcome(r.error, <<r.text>>)

OutcomeOfEffect(w) ==
  LET r == BarcodeEffect("ean13", TRUE, w, NoError, <<>>)
  IN  Outcome(r.error, r.handed)

\* Other ways of writing the digits of the input.
SameDigits == {D} \cup Written(D)

C8_OutcomeDependsOnDigitsOnly ==
  Ean =>
    \A w \in SameDigits :
      /\ done = "processText" =>
            OutcomeOfProcessText(w) = Outcome(ret.error, <<ret.text>>)
      /\ done = "App" => OutcomeOfEffect(w) = Outcome(error, handed)

C8_OutcomeDependsOnDigitsUnlessBlank ==
  (Ean /\ ~IsBlank(text)) =>
    \A w \in {x \in SameDigits : ~IsBlank(x)} :
      /\ done = "processText" =>
            OutcomeOfProcessText(w) = Outcome(ret.error, <<ret.text>>)
      /\ done = "App" => OutcomeOfEffect(w) = Outcome(error, handed)

\* 13 valid digits written with hyphens give the bare digits.
C8_Witness ==
  /\ Ean /\ done = "processText"
  /\ text = Hyphenated(D) /\ Len(D) = 13
  /\ ret = [text |-> D, error |-> NoError]

(***************************************************************************)
(* C9: the check digit computed for 12 digits is one integer of 0..9, also *)
(* when the weighted sum is a multiple of 10, so that the completed code   *)
(* has exactly 13 characters, the last one a decimal digit.                *)
(***************************************************************************)
C9_CheckDigitInRange ==
  (Ean /\ Len(D) = 12) =>
    /\ checkDigit(sumLoop(D, 0, 0)) \in 0..9
    /\ done = "processText" =>
          (Len(ret.text) = 13 /\ IsDecimal(ret.text[13]))
    /\ done = "App" =>
          (Len(handed) = 1 /\ Len(handed[1]) = 13 /\ IsDecimal(handed[1][13]))

\* A weighted sum that is a positive multiple of 10 gives the check digit 0.
C9_Witness ==
  /\ Ean /\ done = "processText" /\ Len(D) = 12
  /\ SpecWeightedSum(D) > 0 /\ SpecWeightedSum(D) % 10 = 0
  /\ ret.text[13] = "0"

(***************************************************************************)
(* C10: in App, AppComplexe and AppOld, on an input that is not blank      *)
(* under type ean13, a value handed to JsBarcode is a string of exactly 13 *)
(* decimal digits beginning with the digits of the raw input, and when     *)
(* nothing is handed an error is set.                                      *)
(*                                                                         *)
(* AppOld counts the digits of the stripped text but hands the raw text.   *)
(***************************************************************************)
C10_HandedValueIs13Digits ==
  (Ean /\ ~IsBlank(text) /\ done \in {"App", "AppComplexe", "AppOld"}) =>
    IF handed # <<>>
    THEN /\ Len(handed) = 1
         /\ Len(handed[1]) = 13
         /\ \A i \in 1..Len(handed[1]) : IsDecimal(handed[1][i])
         /\ SubSeq(handed[1], 1, Len(D)) = D
    ELSE error # NoError

(***************************************************************************)
(* C11: AppOld, AppComplexe and the second App component of App.tsx hand   *)
(* every input of exactly 13 digits to the renderer without comparing its  *)
(* last digit to the computed check digit (none of them reports a check    *)
(* digit), while the current App refuses a 13-digit input whose last digit *)
(* differs; on 12 digits and on 13 digits with the right check digit       *)
(* AppComplexe and the current App give the same result.                   *)
(***************************************************************************)
RightCheckDigit == DigitValue(D[13]) = SpecCheckDigit(SubSeq(D, 1, 12))

SpecTrim(s) ==
  LET idx == {i \in 1..Len(s) : s[i] # " "}
  IN  IF idx = {} THEN <<>>
      ELSE SubSeq(s, CHOOSE i \in idx : \A j \in idx : i <= j,
                     CHOOSE i \in idx : \A j \in idx : i >= j)

C20_OtherTypesPassTrimmedText ==
  (type \in {"qrcode", "code128"} /\ ~IsBlank(text)) =>
    /\ done = "processText" => ret = [text |-> SpecTrim(text), error |-> NoError]
    /\ done = "App" => handed = <<SpecTrim(text)>>

C20_OtherTypesPassTrimmedTextCode128 ==
  (type \in {"qrcode", "code128"} /\ ~IsBlank(text)) =>
    /\ done = "processText" => ret = [text |-> SpecTrim(text), error |-> NoError]
    /\ (done = "App" /\ type = "code128") =>
          (handed = <<SpecTrim(text)>> /\ svg = SpecTrim(text) /\ error = NoError)
    /\ (done = "App" /\ type = "qrcode") => (handed = <<>> /\ svg = <<>>)

\* " 123456789012  " is rendered as Code128 with its 12 digits only.
C20_Witness ==
  /\ type = "code128" /\ done = "App"
  /\ text = Spaced(Str123456789012)
  /\ handed = <<Str123456789012>>

(***************************************************************************)
(* The App component in the browser, single mode.  A step is one event     *)
(* (a click, an input event, a timer) with everything React does before    *)
(* the next event: the render, the commit that attaches and detaches the   *)
(* refs, the effects whose dependencies changed, and the render and commit *)
(* their setError call causes.                                             *)
(***************************************************************************)
Code12 == <<"1","2","3","4","5","6","7","8","9","0","1","2">>

\* The texts typed into the input of single mode: empty, blank, a letter,
\* 5 and 6 digits, 12 digits (plain and surrounded by spaces), 13 digits
\* with the right and with a wrong last digit.
SingleTexts ==
  { <<>>, <<" ">>, <<"a">>, SubSeq(Code12, 1, 5), SubSeq(Code12, 1, 6),
    Code12, Spaced(Code12), Code12 \o <<"8">>, Code12 \o <<"9">> }

SavedThemes == {"", "dark", "light"}

\* text.trim() && !error inside !isBatchMode: the preview is rendered.
PreviewShown(batch, txt, err) == ~batch /\ trim(txt) # <<>> /\ err = NoError

\* The refs after a commit.  The <svg> is rendered when the preview is and
\* the type is not qrcode, the QR <canvas> when the preview is and the type
\* is qrcode.  An <svg> that was attached keeps its content; a newly
\* attached one is empty.
Commit(batch, txt, codeType, err, wasMounted, content) ==
  LET shown == PreviewShown(batch, txt, err)
      svgM == shown /\ codeType # "qrcode"
  IN  [svgMounted |-> svgM,
       canvasMounted |-> shown /\ codeType = "qrcode",
       svg |-> IF svgM /\ wasMounted THEN content ELSE <<>>]

\* The effect of [type]: svgRef.current.innerHTML = '' and setError('').
TypeEffectKeepsError(svgM, content) ==
  [error |-> error, svg |-> IF svgM THEN <<>> ELSE content]

TypeEffect(svgM, content) ==
  [error |-> NoError, svg |-> IF svgM THEN <<>> ELSE content]

\* savedTheme === 'dark' || (!savedTheme && prefersDark)
shouldBeDark(saved, prefers) == saved = "dark" \/ (saved = "" /\ prefers)

\* The effect of [isDark].
ThemeEffectSwapped(dark) ==
  [rootDark |-> dark, savedTheme |-> IF dark THEN "light" ELSE "dark"]

ThemeEffect(dark) ==
  [rootDark |-> dark, savedTheme |-> IF dark THEN "dark" ELSE "light"]

\* download(): the files it emits, none or one.
downloadEmptySvg(txt, codeType, canvasM, svgM, content) ==
  IF trim(txt) = <<>> THEN <<>>
  ELSE IF codeType = "qrcode" /\ canvasM THEN <<"png">>
  ELSE IF svgM THEN <<"svg">>
  ELSE <<>>

download(txt, codeType, canvasM, svgM, content) ==
  IF trim(txt) = <<>> THEN <<>>
  ELSE IF codeType = "qrcode" /\ canvasM THEN <<"png">>
  ELSE IF svgM /\ content # <<>> THEN <<"svg">>
  ELSE <<>>

\* disabled={!text.trim() || !!error} of the download button
DownloadDisabled == trim(text) = <<>> \/ error # NoError

\* One render of the component with the new values of its state, the
\* commit, the effects of [type], of [debouncedText, type, isDark] and of
\* [isDark] where a dependency changed, and the render and commit after
\* their setError.
Rerender(name, txt, deb, codeType, dark, batch) ==
  LET c1 == Commit(batch, txt, codeType, error, svgMounted, svg)
      typeRuns == codeType # type
      themeRuns == dark # isDark
      barcodeRuns == deb # debouncedText \/ typeRuns \/ themeRuns
      e1 == IF typeRuns THEN TypeEffect(c1.svgMounted, c1.svg)
            ELSE [error |-> error, svg |-> c1.svg]
      e2 == IF barcodeRuns
            THEN BarcodeEffect(codeType, c1.svgMounted, deb, e1.error, e1.svg)
            ELSE [error |-> e1.error, svg |-> e1.svg, handed |-> <<>>]
      c2 == Commit(batch, txt, codeType, e2.error, c1.svgMounted, e2.svg)
      t == ThemeEffect(dark)
  IN  /\ mounted
      /\ done' = name
      /\ text' = txt
      /\ debouncedText' = deb
      /\ type' = codeType
      /\ isDark' = dark
      /\ isBatchMode' = batch
      /\ error' = e2.error
      /\ handed' = e2.handed
      /\ svg' = c2.svg
      /\ svgMounted' = c2.svgMounted
      /\ canvasMounted' = c2.canvasMounted
      /\ rootDark' = IF themeRuns THEN t.rootDark ELSE rootDark
      /\ savedTheme' = IF themeRuns THEN t.savedTheme ELSE savedTheme
      /\ UNCHANGED <<mounted, prefersDark, emitted, ret>>
      /\ UNCHANGED batchVars

\* The first render (text '', type qrcode, isDark false: nothing is shown)
\* and its effects: the mount effect calls setIsDark(shouldBeDark), the
\* effect of [isDark] runs with isDark false, the two others leave the
\* state as it is; if isDark changed, the effect of [isDark] runs again.
Mount ==
  LET should == shouldBeDark(savedTheme, prefersDark)
      t == IF should # FALSE THEN ThemeEffect(should) ELSE ThemeEffect(FALSE)
  IN  /\ ~mounted
      /\ mounted' = TRUE
      /\ done' = "mount"
      /\ isDark' = should
      /\ rootDark' = t.rootDark
      /\ savedTheme' = t.savedTheme
      /\ UNCHANGED <<text, type, ret, error, svg, handed, debouncedText,
                     svgMounted, canvasMounted, prefersDark, isBatchMode,
                     emitted>>
      /\ UNCHANGED batchVars

\* onChange of the input: setText(e.target.value)
SetText ==
  /\ ~isBatchMode
  /\ \E t \in SingleTexts \ {text} :
       Rerender("setText", t, debouncedText, type, isDark, isBatchMode)

\* The timer of useDebounce(text, 300) fires: debouncedText becomes text.
DebounceFire ==
  /\ debouncedText # text
  /\ Rerender("debounce", text, text, type, isDark, isBatchMode)

\* onClick of a type button: setType(option.id)
SetType ==
  /\ mounted
  /\ \E c \in CodeTypes \ {type} :
       Rerender("setType", text, debouncedText, c, isDark, isBatchMode)

\* toggleTheme: setIsDark(!isDark)
ToggleTheme ==
  /\ mounted
  /\ Rerender("toggleTheme", text, debouncedText, type, ~isDark, isBatchMode)

\* onClick of the mode switch: setIsBatchMode(!isBatchMode)
ToggleBatchMode ==
  /\ mounted
  /\ Rerender("toggleBatchMode", text, debouncedText, type, isDark,
              ~isBatchMode)

\* onClick of the download button of single mode
Download ==
  /\ mounted
  /\ ~isBatchMode
  /\ ~DownloadDisabled
  /\ done' = "download"
  /\ emitted' = download(text, type, canvasMounted, svgMounted, svg)
  /\ UNCHANGED <<text, type, ret, error, svg, handed, mounted, debouncedText,
                 svgMounted, canvasMounted, isBatchMode>>
  /\ UNCHANGED themeVars
  /\ UNCHANGED batchVars

InitSingle ==
  /\ text = <<>>
  /\ type = "qrcode"
  /\ done = "none"
  /\ ret = [text |-> <<>>, error |-> NoError]
  /\ error = NoError
  /\ svg = <<>>
  /\ handed = <<>>
  /\ mounted = FALSE
  /\ debouncedText = <<>>
  /\ svgMounted = FALSE
  /\ canvasMounted = FALSE
  /\ isDark = FALSE
  /\ savedTheme \in SavedThemes
  /\ prefersDark \in BOOLEAN
  /\ rootDark = FALSE
  /\ isBatchMode = FALSE
  /\ emitted = <<>>
  /\ BatchIdle

NextSingle ==
  \/ Mount
  \/ SetText
  \/ DebounceFire
  \/ SetType
  \/ ToggleTheme
  \/ ToggleBatchMode
  \/ Download

SpecSingle == InitSingle /\ [][NextSingle]_vars

(***************************************************************************)
(* Claims about single mode.                                               *)
(***************************************************************************)
\* A text that normalizes under a type: not blank and, under ean13, 12
\* digits or 13 digits the last of which is the check digit of the others.
SpecNormalizes(t, ty) ==
  /\ ~IsBlank(t)
  /\ ty = "ean13" =>
       \/ Len(DigitsIn(t)) = 12
       \/ /\ Len(DigitsIn(t)) = 13
          /\ DigitValue(DigitsIn(t)[13])
               = SpecCheckDigit(SubSeq(DigitsIn(t), 1, 12))

\* What it normalizes to.
SpecNormalized(t, ty) ==
  IF ty # "ean13" THEN SpecTrim(t)
  ELSE IF Len(DigitsIn(t)) = 12 THEN Completed(DigitsIn(t))
  ELSE DigitsIn(t)

BarcodeType == type \in {"ean13", "code128"}

(***************************************************************************)
(* C13: in single mode with type ean13 or code128, once the debounce of a  *)
(* non-blank text that normalizes has elapsed and the effects have run,    *)
(* the preview <svg> holds the barcode of the normalized text and error is *)
(* empty, whatever came before.                                            *)
(***************************************************************************)
C13_LivePreviewAfterDebounce ==
  (done = "debounce" /\ ~isBatchMode /\ BarcodeType
     /\ SpecNormalizes(text, type))
    => (svgMounted /\ svg = SpecNormalized(text, type) /\ error = NoError)

\* The message of the failure of a non-blank text that does not normalize
\* under ean13.
SpecFailure(t) ==
  IF Len(DigitsIn(t)) = 13
  THEN SpecChecksumError(SpecCheckDigit(SubSeq(DigitsIn(t), 1, 12)),
                         DigitValue(DigitsIn(t)[13]))
  ELSE SpecLengthError(Len(DigitsIn(t)))

\* The effects have settled for the text: its debounce has elapsed.
Settled == mounted /\ debouncedText = text

(***************************************************************************)
(* C14: in single mode with type ean13, whenever the effects have settled  *)
(* for a non-blank debounced text that does not normalize, error is that   *)
(* failure's message, whatever came before: an invalid input is never      *)
(* shown with an empty error.                                              *)
(***************************************************************************)
C14_InvalidInputShowsItsError ==
  (Settled /\ ~isBatchMode /\ type = "ean13" /\ ~IsBlank(text)
     /\ ~SpecNormalizes(text, type))
    => error = SpecFailure(text)

(***************************************************************************)
(* C15: download() emits nothing when text is blank; otherwise one PNG     *)
(* when the type is qrcode and the QR canvas is mounted, one SVG when the  *)
(* type is ean13 or code128 and the preview <svg> is mounted and not       *)
(* empty, and nothing in any other case; no PNG for a barcode type, no SVG *)
(* for qrcode, no SVG while error is non-empty.  Stated of the call the    *)
(* download button makes and of a call in any state the component reaches. *)
(***************************************************************************)
SpecDownload ==
  IF IsBlank(text) THEN <<>>
  ELSE IF type = "qrcode" /\ canvasMounted THEN <<"png">>
  ELSE IF BarcodeType /\ svgMounted /\ svg # <<>> THEN <<"svg">>
  ELSE <<>>

C15_DownloadEmitsOneFileOfTheTypesKind ==
  LET e == download(text, type, canvasMounted, svgMounted, svg)
  IN  /\ e = SpecDownload
      /\ done = "download" => emitted = SpecDownload
      /\ e = <<"png">> => type = "qrcode"
      /\ e = <<"svg">> => (BarcodeType /\ error = NoError)

C15_Witness ==
  /\ done = "download"
  /\ type = "ean13"
  /\ text = Code12
  /\ emitted = <<"svg">>

(***************************************************************************)
(* C17: each toggleTheme flips isDark; whenever the effects have settled   *)
(* after the mount or after any toggles, the document root has class       *)
(* 'dark' iff isDark and localStorage 'theme' is 'dark' iff isDark and     *)
(* 'light' otherwise; a mount with saved theme 'dark' settles with isDark  *)
(* true and the saved value still 'dark'.                                  *)
(***************************************************************************)
ThemeConsistent ==
  /\ rootDark = isDark
  /\ savedTheme = (IF isDark THEN "dark" ELSE "light")

C17_ThemeToggleAndPersistence ==
  /\ [](mounted => ThemeConsistent)
  /\ [][done' = "toggleTheme" => isDark' = ~isDark]_vars
  /\ [][(~mounted /\ mounted' /\ savedTheme = "dark")
          => (isDark' /\ savedTheme' = "dark")]_vars

C17_Witness ==
  /\ done = "toggleTheme"
  /\ isDark
  /\ rootDark
  /\ savedTheme = "dark"

(***************************************************************************)
(* Batch mode: generateBatchCodes, suspended between chunks, and what the  *)
(* user may do meanwhile.                                                  *)
(***************************************************************************)
MaxLines == 11

chunkSize == 5

Min(a, b) == IF a < b THEN a ELSE b

\* The texts typed into the textarea: the same code on chunkSize,
\* chunkSize + 1 and MaxLines lines (one full chunk, two chunks, three
\* chunks), the empty text, and a text of more than one chunk
\* that repeats a code of 12 digits, a blank line, five digits between
\* spaces and a code of 13 digits.
MixedLines ==
  <<Code12, <<" ">>, Spaced(SubSeq(Code12, 1, 5)), Code12 \o <<"8">> >>

MixedText == [i \in 1..(2 * Len(MixedLines)) |->
                MixedLines[((i - 1) % Len(MixedLines)) + 1]]

BatchSizes == {chunkSize, chunkSize + 1, MaxLines}

BatchTexts ==
  {[i \in 1..n |-> Code12] : n \in BatchSizes} \cup {MixedText, EmptyText}

\* debouncedBatchText.split('\n').filter(line => line.trim())
nonBlankLines(t) == SelectSeq(t, LAMBDA line : trim(line) # <<>>)

\* batchText.trim() is not empty
HasText(t) == nonBlankLines(t) # <<>>

\* The entry the loop body pushes for a line.  id stands for the index in
\* the id; error NoError, svg <<>> and canvas FALSE are the absent fields.
Entry(index, txt, codeType, err, svgString) ==
  [id |-> index, text |-> txt, type |-> codeType, error |-> err,
   svg |-> svgString, canvas |-> FALSE]

\* The loop body after its call of processText, which returned r.
pushedAfterRendersQr(r, line, index, codeType) ==
  LET j == RenderOrCatch(FormatOf(codeType), r.text, "")
  IN  IF r.error # NoError
      THEN Entry(index, line, codeType, r.error, <<>>)
      ELSE IF j.error = NoError
      THEN Entry(index, r.text, codeType, NoError, j.svg)
      ELSE Entry(index, line, codeType, j.error, <<>>)

pushedAfter(r, line, index, codeType) ==
  LET j == RenderOrCatch(FormatOf(codeType), r.text, "")
  IN  IF r.error # NoError
      THEN Entry(index, line, codeType, r.error, <<>>)
      ELSE IF codeType = "qrcode"
      THEN Entry(index, r.text, codeType, NoError, <<>>)
      ELSE IF j.error = NoError
      THEN Entry(index, r.text, codeType, NoError, j.svg)
      ELSE Entry(index, line, codeType, j.error, <<>>)

\* The loop body for a line.  r ranges over the one value processText
\* returns, so that the call is evaluated once.
pushed(line, index, codeType) ==
  CHOOSE e \in {pushedAfter(r, line, index, codeType) :
                  r \in {processText(line, codeType)}} : TRUE

\* Math.min(chunkStart + chunkSize, lines.length)
chunkEndWhole(chunkStart, n) == n

chunkEndOf(chunkStart, n) == Min(chunkStart + chunkSize, n)

\* codes after the chunk that starts at chunkStart
afterChunk(lines, codes, chunkStart, codeType) ==
  codes \o [i \in 1..(chunkEndOf(chunkStart, Len(lines)) - chunkStart) |->
              pushed(lines[chunkStart + i], chunkStart + i - 1, codeType)]

\* The call once it has returned, with the locals it ended with.
Returned(lines, codes, chunkStart, codeType) ==
  [active |-> FALSE, lines |-> lines, codes |-> codes,
   chunkStart |-> chunkStart, type |-> codeType]

\* generateBatchCodes from the top of its outer loop to its next await or
\* to its end: the list it publishes (none or one), whether it suspends,
\* the call as suspended, and isGeneratingBatch.
generateBatchCodesNoReset(lines, codes, chunkStart, codeType) ==
  LET chunkEnd == chunkEndOf(chunkStart, Len(lines))
      codes2 == afterChunk(lines, codes, chunkStart, codeType)
  IN  IF chunkStart < Len(lines)
      THEN IF chunkEnd < Len(lines)
           THEN [published |-> <<codes2>>, yielded |-> TRUE,
                 run |-> [active |-> TRUE, lines |-> lines, codes |-> codes2,
                          chunkStart |-> chunkStart + chunkSize,
                          type |-> codeType],
                 generating |-> TRUE]
           ELSE [published |-> <<codes2>>, yielded |-> FALSE,
                 run |-> Returned(lines, codes2, chunkStart, codeType),
                 generating |-> TRUE]
      ELSE [published |-> <<>>, yielded |-> FALSE,
            run |-> Returned(lines, codes, chunkStart, codeType),
            generating |-> TRUE]

generateBatchCodesFlagPerChunk(lines, codes, chunkStart, codeType) ==
  LET chunkEnd == chunkEndOf(chunkStart, Len(lines))
      codes2 == afterChunk(lines, codes, chunkStart, codeType)
  IN  IF chunkStart < Len(lines)
      THEN IF chunkEnd < Len(lines)
           THEN [published |-> <<codes2>>, yielded |-> TRUE,
                 run |-> [active |-> TRUE, lines |-> lines, codes |-> codes2,
                          chunkStart |-> chunkStart + chunkSize,
                          type |-> codeType],
                 generating |-> FALSE]
           ELSE [published |-> <<codes2>>, yielded |-> FALSE,
                 run |-> Returned(lines, codes2, chunkStart, codeType),
                 generating |-> FALSE]
      ELSE [published |-> <<>>, yielded |-> FALSE,
            run |-> Returned(lines, codes, chunkStart, codeType),
            generating |-> FALSE]

generateBatchCodes(lines, codes, chunkStart, codeType) ==
  LET chunkEnd == chunkEndOf(chunkStart, Len(lines))
      codes2 == afterChunk(lines, codes, chunkStart, codeType)
  IN  IF chunkStart < Len(lines)
      THEN IF chunkEnd < Len(lines)
           THEN [published |-> <<codes2>>, yielded |-> TRUE,
                 run |-> [active |-> TRUE, lines |-> lines, codes |-> codes2,
                          chunkStart |-> chunkStart + chunkSize,
                          type |-> codeType],
                 generating |-> TRUE]
           ELSE [published |-> <<codes2>>, yielded |-> FALSE,
                 run |-> Returned(lines, codes2, chunkStart, codeType),
                 generating |-> FALSE]
      ELSE [published |-> <<>>, yielded |-> FALSE,
            run |-> Returned(lines, codes, chunkStart, codeType),
            generating |-> FALSE]

\* The state after a stretch g of the call; pubs and y are the publications
\* and yields of the call so far.
Stretch(g, pubs, y) ==
  /\ generatedCodes' =
       IF g.published = <<>> THEN generatedCodes ELSE g.published[1]
  /\ publications' = pubs \o g.published
  /\ yields' = IF g.yielded THEN y + 1 ELSE y
  /\ run' = g.run
  /\ isGeneratingBatch' = g.generating

\* onChange of the textarea: setBatchText(e.target.value)
SetBatchTextFrom(texts) ==
  /\ mounted
  /\ isBatchMode
  /\ \E t \in texts \ {batchText} : batchText' = t
  /\ done' = "setBatchText"
  /\ UNCHANGED <<debouncedBatchText, generatedCodes, isGeneratingBatch, run,
                 publications, yields, clicked, timers>>
  /\ UNCHANGED <<text, type, ret, error, svg, handed>>
  /\ UNCHANGED <<themeVars, singleVars>>

SetBatchText == SetBatchTextFrom(BatchTexts)

\* The timer of useDebounce(batchText, 300) fires.
DebounceBatchFire ==
  /\ mounted
  /\ debouncedBatchText # batchText
  /\ debouncedBatchText' = batchText
  /\ done' = "debounceBatch"
  /\ UNCHANGED <<batchText, generatedCodes, isGeneratingBatch, run,
                 publications, yields, clicked, timers>>
  /\ UNCHANGED <<text, type, ret, error, svg, handed>>
  /\ UNCHANGED <<themeVars, singleVars>>

\* onClick of the Generate button: the call up to its first await or its end
GenerateBatchCodes ==
  /\ mounted
  /\ isBatchMode
  /\ HasText(batchText)
  /\ ~isGeneratingBatch
  /\ \E g \in {generateBatchCodes(nonBlankLines(debouncedBatchText), <<>>,
                                    0, type)} :
       Stretch(g, <<>>, 0)
  /\ done' = "generate"
  /\ UNCHANGED <<batchText, debouncedBatchText, clicked, timers>>
  /\ UNCHANGED <<text, type, ret, error, svg, handed>>
  /\ UNCHANGED <<themeVars, singleVars>>

\* The timer of the await fires: the call goes on with its next chunk.
ResumeBatch ==
  /\ run.active
  /\ \E g \in {generateBatchCodes(run.lines, run.codes, run.chunkStart,
                                    run.type)} :
       Stretch(g, publications, yields)
  /\ done' = "resume"
  /\ UNCHANGED <<batchText, debouncedBatchText, clicked, timers>>
  /\ UNCHANGED <<text, type, ret, error, svg, handed>>
  /\ UNCHANGED <<themeVars, singleVars>>

\* onClick of 'Vider'
ClearBatch ==
  /\ mounted
  /\ isBatchMode
  /\ generatedCodes # <<>>
  /\ generatedCodes' = <<>>
  /\ batchText' = EmptyText
  /\ done' = "clearBatch"
  /\ UNCHANGED <<debouncedBatchText, isGeneratingBatch, run, publications,
                 yields, clicked, timers>>
  /\ UNCHANGED <<text, type, ret, error, svg, handed>>
  /\ UNCHANGED <<themeVars, singleVars>>

\* The component mounted and switched to batch mode, any type selected,
\* nothing typed.
InitBatch ==
  /\ text = <<>>
  /\ type \in CodeTypes
  /\ done = "none"
  /\ ret = [text |-> <<>>, error |-> NoError]
  /\ error = NoError
  /\ svg = <<>>
  /\ handed = <<>>
  /\ mounted = TRUE
  /\ debouncedText = <<>>
  /\ svgMounted = FALSE
  /\ canvasMounted = FALSE
  /\ isDark = FALSE
  /\ savedTheme = "light"
  /\ prefersDark = FALSE
  /\ rootDark = FALSE
  /\ isBatchMode = TRUE
  /\ emitted = <<>>
  /\ BatchIdle

NextBatch ==
  \/ SetBatchText
  \/ DebounceBatchFire
  \/ SetType
  \/ GenerateBatchCodes
  \/ ResumeBatch
  \/ ClearBatch

SpecBatch == InitBatch /\ [][NextBatch]_vars

\* The timer of the await (setTimeout(resolve, 10)) fires once set.
SpecBatchFair == SpecBatch /\ WF_vars(ResumeBatch)

(***************************************************************************)
(* Claims about batch mode.                                                *)
(***************************************************************************)
\* ceil(n / 5)
CeilFifth(n) == (n + 4) \div 5

\* p is a prefix of q
IsPrefix(p, q) == Len(p) <= Len(q) /\ p = SubSeq(q, 1, Len(p))

(***************************************************************************)
(* C18: a generateBatchCodes call processes the non-blank lines in         *)
(* consecutive chunks of at most 5 and publishes the cumulative list after *)
(* each chunk: publication i holds the entries of the first min(5i, n)     *)
(* lines in order and extends publication i-1; the call has suspended once *)
(* after each chunk but the last, so that a call over n > 0 lines ends     *)
(* with ceil(n/5) publications and ceil(n/5) - 1 yields.                   *)
(***************************************************************************)
C18_ChunksOfFivePublishedCumulatively ==
  LET n == Len(run.lines)
      k == Len(publications)
      small(a, b) == IF a < b THEN a ELSE b
  IN  /\ \A j \in 1..n : ~IsBlank(run.lines[j])
      /\ \A i \in 1..k :
           /\ Len(publications[i]) = small(5 * i, n)
           /\ \A j \in 1..Len(publications[i]) : publications[i][j].id = j - 1
           /\ i > 1 => IsPrefix(publications[i - 1], publications[i])
      /\ run.active => (k >= 1 /\ 5 * k < n /\ yields = k)
      /\ (~run.active /\ n > 0) => (k = CeilFifth(n) /\ yields = k - 1)
      /\ (~run.active /\ n = 0) => (k = 0 /\ yields = 0)

C18_Witness ==
  /\ done = "resume"
  /\ ~run.active
  /\ Len(run.lines) = 11
  /\ Len(publications) = 3
  /\ yields = 2

(***************************************************************************)
(* C19: every generateBatchCodes call ends: whichever lines fail and       *)
(* whatever the user does meanwhile, isGeneratingBatch, once true, is      *)
(* eventually false again (the timer of each await fires).                 *)
(***************************************************************************)
C19_GenerationTerminates == isGeneratingBatch ~> ~isGeneratingBatch

C19_Witness ==
  /\ done = "resume"
  /\ ~isGeneratingBatch
  /\ yields >= 1
  /\ \E j \in 1..Len(generatedCodes) : generatedCodes[j].error # NoError

(***************************************************************************)
(* Batch mode: downloadBatchCodes and its timers.                          *)
(***************************************************************************)
\* The texts typed into the textarea where the downloads are explored.
DownloadTexts == {EmptyText, MixedText, <<Code12, SubSeq(Code12, 1, 5)>>}

SetDownloadText == SetBatchTextFrom(DownloadTexts)

\* The callback of the timer set for entry code at index (0-based): the
\* files it emits, none or one, with the number index + 1 of its name.
timerCallback(code, index) ==
  IF code.type = "qrcode" /\ code.canvas
  THEN <<[kind |-> "png", number |-> index + 1]>>
  ELSE IF code.svg # <<>>
  THEN <<[kind |-> "svg", number |-> index + 1]>>
  ELSE <<>>

\* generatedCodes.forEach: a timer of delay index * 150 for every entry
\* without error; they fire by increasing delay.
timersOf(codes) ==
  LET withIndex == [i \in 1..Len(codes) |-> [code |-> codes[i], index |-> i - 1]]
  IN  SelectSeq(withIndex, LAMBDA t : t.code.error = NoError)

\* onClick of 'Télécharger tout', rendered when generatedCodes is not
\* empty; explored with the timers of the previous click all fired.
DownloadBatchCodes ==
  /\ mounted
  /\ isBatchMode
  /\ generatedCodes # <<>>
  /\ timers = <<>>
  /\ clicked' = generatedCodes
  /\ timers' = timersOf(generatedCodes)
  /\ emitted' = <<>>
  /\ done' = "downloadBatch"
  /\ UNCHANGED <<batchText, debouncedBatchText, generatedCodes,
                 isGeneratingBatch, run, publications, yields>>
  /\ UNCHANGED <<text, type, ret, error, svg, handed>>
  /\ UNCHANGED <<mounted, debouncedText, svgMounted, canvasMounted,
                 isBatchMode>>
  /\ UNCHANGED themeVars

\* The next timer of downloadBatchCodes fires.
DownloadTimerFires ==
  /\ timers # <<>>
  /\ emitted' = emitted \o timerCallback(Head(timers).code, Head(timers).index)
  /\ timers' = Tail(timers)
  /\ done' = "downloadTimer"
  /\ UNCHANGED <<batchText, debouncedBatchText, generatedCodes,
                 isGeneratingBatch, run, publications, yields, clicked>>
  /\ UNCHANGED <<text, type, ret, error, svg, handed>>
  /\ UNCHANGED <<mounted, debouncedText, svgMounted, canvasMounted,
                 isBatchMode>>
  /\ UNCHANGED themeVars

NextDownload ==
  \/ SetDownloadText
  \/ DebounceBatchFire
  \/ SetType
  \/ GenerateBatchCodes
  \/ ResumeBatch
  \/ ClearBatch
  \/ DownloadBatchCodes
  \/ DownloadTimerFires

SpecBatchDownload == InitBatch /\ [][NextDownload]_vars

(***************************************************************************)
(* C16: downloadBatchCodes triggers exactly one download for every entry   *)
(* of generatedCodes without error (the count of the 'Télécharger tout'    *)
(* button), a PNG for a qrcode entry and an SVG for an ean13 or code128    *)
(* entry, skips the entries with an error, and triggers them in list       *)
(* order: once the timers of a click have fired, the files emitted are     *)
(* those, in that order.                                                   *)
(***************************************************************************)
SpecBatchDownloads(codes) ==
  LET positions == SelectSeq([i \in 1..Len(codes) |-> i],
                             LAMBDA i : codes[i].error.msg = "")
  IN  [k \in 1..Len(positions) |->
         [kind |-> IF codes[positions[k]].type = "qrcode" THEN "png"
                   ELSE "svg",
          number |-> positions[k]]]

C16_BatchDownloadsEveryValidEntry ==
  (done \in {"downloadBatch", "downloadTimer"} /\ timers = <<>>)
    => emitted = SpecBatchDownloads(clicked)

\* The non-blank lines of a text, in order.
SpecNonBlank(t) == SelectSeq(t, LAMBDA line : ~IsBlank(line))

\* The last generateBatchCodes call has just returned.
RunJustReturned == done \in {"generate", "resume"} /\ ~run.active

(***************************************************************************)
(* C21: when a generateBatchCodes call has returned, generatedCodes holds  *)
(* one entry per non-blank line of the text the call processed, in input   *)
(* order; the entry of a line has an error iff the line does not normalize *)
(* under the type of the call, a failing line does not keep later lines    *)
(* from being processed, an error entry keeps the original line as its     *)
(* text and a success entry holds the normalized text.                     *)
(***************************************************************************)
C21_OneEntryPerLineInOrder ==
  RunJustReturned =>
    /\ done = "generate" => run.lines = SpecNonBlank(debouncedBatchText)
    /\ Len(generatedCodes) = Len(run.lines)
    /\ \A j \in 1..Len(run.lines) :
         LET line == run.lines[j]
             e == generatedCodes[j]
         IN  /\ e.id = j - 1
             /\ (e.error.msg # "") <=> ~SpecNormalizes(line, run.type)
             /\ e.error.msg # "" =>
                  (e.text = line /\ e.error = SpecFailure(line))
             /\ e.error.msg = "" => e.text = SpecNormalized(line, run.type)

(***************************************************************************)
(* C22: after clearBatch, generatedCodes is empty and batchText is '', and *)
(* generatedCodes stays empty until the user starts a new generation, also *)
(* when clearBatch is invoked while a call is suspended between two        *)
(* chunks; clearBatch leaves text, type, theme and error unchanged.        *)
(***************************************************************************)
C22_ClearedStaysEmpty ==
  /\ [][done' = "clearBatch" =>
          /\ generatedCodes' = <<>>
          /\ batchText' = << <<>> >>
          /\ <<text, type, error, isDark, savedTheme, rootDark>>' =
               <<text, type, error, isDark, savedTheme, rootDark>>]_vars
  /\ [][(generatedCodes = <<>> /\ done' # "generate")
          => generatedCodes' = <<>>]_vars

(***************************************************************************)
(* C23: the lines a generateBatchCodes call processes, one entry each, are *)
(* the non-blank lines of batchText at the moment Generate is clicked (the *)
(* count displayed on the button), also when the click comes less than     *)
(* 300 ms after the last edit of the text.                                 *)
(***************************************************************************)
C23_RunProcessesBatchTextAtClick ==
  done = "generate" =>
    /\ run.lines = SpecNonBlank(batchText)
    /\ Len(publications) > 0 =>
         Len(publications[1]) =
           (IF Len(SpecNonBlank(batchText)) < 5
            THEN Len(SpecNonBlank(batchText)) ELSE 5)

(***************************************************************************)
(* C24: whenever download() of single mode emits an SVG, the SVG (the      *)
(* serialized preview <svg>, which the call leaves as it is) is the        *)
(* barcode of the normalized form of the current text, not of an earlier   *)
(* one, also when the text was edited less than 300 ms before the click.   *)
(***************************************************************************)
C24_DownloadedSvgIsOfCurrentText ==
  (done = "download" /\ emitted = <<"svg">>)
    => (SpecNormalizes(text, type) /\ svg = SpecNormalized(text, type))

(***************************************************************************)
(* C25: in every reachable state all entries of generatedCodes carry one   *)
(* type, the type selected when their call started (a call starts with the *)
(* selected type and keeps it while the user selects another), and each    *)
(* entry is an error entry (error, no svg) or a success entry (no error,   *)
(* svg iff its type is not qrcode).                                        *)
(***************************************************************************)
C25_EntriesCarryTheTypeOfTheirRun ==
  /\ \A j, k \in 1..Len(generatedCodes) :
       generatedCodes[j].type = generatedCodes[k].type
  /\ done = "generate" => run.type = type
  /\ (done \in {"generate", "resume"} /\ publications # <<>>) =>
       \A j \in 1..Len(generatedCodes) : generatedCodes[j].type = run.type
  /\ \A j \in 1..Len(generatedCodes) :
       LET e == generatedCodes[j]
       IN  /\ e.error.msg # "" => e.svg = <<>>
           /\ e.error.msg = "" => (e.svg # <<>> <=> e.type # "qrcode")

C25_Witness ==
  /\ done = "resume"
  /\ ~run.active
  /\ type = "qrcode"
  /\ run.type = "ean13"
  /\ Len(generatedCodes) > 5
  /\ \E j \in 1..Len(generatedCodes) : generatedCodes[j].error.msg # ""
  /\ \A j \in 1..Len(generatedCodes) : generatedCodes[j].type = "ean13"

(***************************************************************************)
(* C26: at most one generateBatchCodes call is in flight: isGeneratingBatch *)
(* is true exactly while a call is suspended between two chunks, Generate  *)
(* starts a call only when none is suspended, and every list published     *)
(* holds the entries of one call only, for its lines 0, 1, 2, ... in order. *)
(***************************************************************************)
C26_OneRunInFlight ==
  /\ [](isGeneratingBatch <=> run.active)
  /\ [][done' = "generate" => (~run.active /\ ~isGeneratingBatch)]_vars
  /\ []((done \in {"generate", "resume"} /\ publications # <<>>) =>
          /\ generatedCodes = publications[Len(publications)]
          /\ Len(generatedCodes) <= Len(run.lines)
          /\ \A j \in 1..Len(generatedCodes) :
               /\ generatedCodes[j].id = j - 1
               /\ generatedCodes[j].type = run.type)

C26_Witness ==
  /\ done = "debounceBatch"
  /\ run.active
  /\ isGeneratingBatch
  /\ ~IsBlank(batchText[1])
  /\ batchText # run.lines

(***************************************************************************)
(* C27: for type ean13 and every non-blank input, the normalization inside *)
(* the single-mode effect and processText agree: where processText returns *)
(* a text and no error the effect hands that same text of 13 digits to the *)
(* renderer and sets no error, and where processText returns an error the  *)
(* effect hands nothing over and sets the same error.                      *)
(***************************************************************************)
C27_EffectAndProcessTextAgree ==
  (Ean /\ ~IsBlank(text) /\ done = "App") =>
    LET r == processText(text, type)
    IN  /\ r.error.msg = "" =>
             /\ error.msg = ""
             /\ handed = <<r.text>>
             /\ Len(r.text) = 13
             /\ \A i \in 1..13 : IsDecimal(r.text[i])
        /\ r.error.msg # "" => (error = r.error /\ handed = <<>>)

C27_Witness ==
  /\ Ean
  /\ done = "App"
  /\ text = Hyphenated(Str123456789012 \o <<"8">>)
  /\ handed = <<Str123456789012 \o <<"8">> >>
  /\ error.msg = ""

(***************************************************************************)
(* C28: after a change of the code type and the effects it triggers, no    *)
(* error of the previous type is shown: error is empty when the new type   *)
(* is qrcode; when it is ean13, error is empty or is the failure of the    *)
(* current debounced text under ean13; when it is code128, error is empty  *)
(* (a text of the characters considered here has no failure under          *)
(* code128).                                                               *)
(***************************************************************************)
C28_TypeChangeDropsTheOldError ==
  done = "setType" =>
    /\ type = "qrcode" => error = NoError
    /\ type = "code128" => error = NoError
    /\ type = "ean13" =>
         \/ error = NoError
         \/ /\ ~IsBlank(debouncedText)
            /\ ~SpecNormalizes(debouncedText, "ean13")
            /\ error = SpecFailure(debouncedText)

C28_Witness ==
  /\ done = "setType"
  /\ type = "ean13"
  /\ ~isBatchMode
  /\ debouncedText = SubSeq(Code12, 1, 5)
  /\ error = SpecLengthError(5)

(***************************************************************************)
(* generateRandomCode(codeType), case 'ean13'.  draws is the sequence of   *)
(* the twelve values of Math.floor(Math.random() * 10), each in 0..9.      *)
(***************************************************************************)
FreeDraws == 3

\* The sequences of draws explored: the last FreeDraws draws take every
\* value, the draws before them are all 0, all 9, or 1, 2, 3, ...
RandomPrefixes ==
  { [i \in 1..(12 - FreeDraws) |-> 0],
    [i \in 1..(12 - FreeDraws) |-> 9],
    [i \in 1..(12 - FreeDraws) |-> i % 10] }

RandomDraws ==
  { p \o t : p \in RandomPrefixes, t \in [1..FreeDraws -> 0..9] }

\* for (let i = 0; i < 12; i++) digits += Math.floor(...).toString()
RECURSIVE randomDigits(_, _, _)
randomDigits(draws, i, digits) ==
  IF i < 12
  THEN randomDigits(draws, i + 1, digits \o NumToStr(draws[i + 1]))
  ELSE digits

\* for (let i = 0; i < 12; i++) sum += parseInt(digits[i]) * (i % 2 === 0 ? 1 : 3)
RECURSIVE randomSum(_, _, _)
randomSum(digits, i, sum) ==
  IF i < 12
  THEN randomSum(digits, i + 1,
                 sum + parseInt(digits[i + 1]) * (IF i % 2 = 0 THEN 1 ELSE 3))
  ELSE sum

\* return digits + checkDigit
generateRandomCodeNoOuterMod(codeType, draws) ==
  CASE codeType = "ean13" ->
    LET digits == randomDigits(draws, 0, <<>>)
        sum == randomSum(digits, 0, 0)
        checkDigit_ == 10 - (sum % 10)
    IN  digits \o NumToStr(checkDigit_)

generateRandomCode(codeType, draws) ==
  CASE codeType = "ean13" ->
    LET digits == randomDigits(draws, 0, <<>>)
        sum == randomSum(digits, 0, 0)
        checkDigit_ == (10 - (sum % 10)) % 10
    IN  digits \o NumToStr(checkDigit_)

\* The type ean13 selected, nothing generated yet.
InitRandom ==
  /\ type = "ean13"
  /\ text = <<>>
  /\ done = "none"
  /\ ret = [text |-> <<>>, error |-> NoError]
  /\ error = NoError
  /\ svg = <<>>
  /\ handed = <<>>
  /\ UiIdle

\* const newCode = generateRandomCode(type)
GenerateRandomCode ==
  /\ done = "none"
  /\ \E draws \in RandomDraws : text' = generateRandomCode(type, draws)
  /\ done' = "generateRandomCode"
  /\ UNCHANGED <<type, ret, error, svg, handed>>
  /\ UNCHANGED uiVars

\* processText(line, type) on the generated code, as a batch run calls it.
ProcessRandomCode ==
  /\ done = "generateRandomCode"
  /\ ret' = processText(text, type)
  /\ done' = "processRandomCode"
  /\ UNCHANGED <<text, type, error, svg, handed>>
  /\ UNCHANGED uiVars

NextRandom == GenerateRandomCode \/ ProcessRandomCode

SpecRandom == InitRandom /\ [][NextRandom]_vars

(***************************************************************************)
(* C29: generateRandomCode('ean13') returns a string of exactly 13 decimal *)
(* digits whose last digit is the check digit of its first 12, and         *)
(* processText returns that code unchanged and without an error for type   *)
(* ean13.                                                                  *)
(***************************************************************************)
C29_RandomEan13IsAccepted ==
  /\ done \in {"generateRandomCode", "processRandomCode"} =>
       /\ Len(text) = 13
       /\ \A i \in 1..13 : IsDecimal(text[i])
       /\ DigitValue(text[13]) = SpecCheckDigit(SubSeq(text, 1, 12))
  /\ done = "processRandomCode" =>
       /\ ret.text = text
       /\ ret.error = NoError

C29_Witness ==
  /\ done = "processRandomCode"
  /\ type = "ean13"
  /\ Len(text) = 13
  /\ text[1] = "9"
  /\ text[13] = "0"
  /\ ret.text = text

====
